---- MODULE Spec2Model ----
(***************************************************************************)
(* ATS resume analyser (src/main.py): the POST /analyze handler, its       *)
(* upload directory, and the response sanitizer clean_json_string.         *)
(*                                                                         *)
(* A text is a sequence of one-character strings.  Three of the characters *)
(* stand for longer JSON member lists (see MemberChars).                   *)
(***************************************************************************)
EXTENDS Integers, Sequences, FiniteSets, TLC

VARIABLES
    \* ---- POST /analyze, one entry per request
    pc,         \* position of each request in analyze()
    req,        \* the multipart form of each request
    files,      \* the upload directory: filename -> file (inode) or NoFile
    data,       \* content of each file ever created, linked or not
    fd,         \* the file each request opened for writing
    seen,       \* the file content extract_text_from_pdf read
    resume_text,\* value returned by extract_text_from_pdf
    remote,     \* outcome of client.models.generate_content
    result,     \* analysis_result
    resp,       \* the HTTP response sent
    stored,     \* resume_file.save returned normally
    wrote,      \* number of changes the request made to the directory
    calls,      \* number of remote model calls the request made
    \* ---- the sanitizer applied on its own
    phase,      \* "input", "once", "twice"
    json_str,   \* the raw text
    cleaned,    \* clean_json_string(json_str)
    recleaned   \* clean_json_string(cleaned)

reqVars == <<pc, req, files, data, fd, seen, resume_text, remote, result, resp,
             stored, wrote, calls>>
txtVars == <<phase, json_str, cleaned, recleaned>>
vars == <<pc, req, files, data, fd, seen, resume_text, remote, result, resp,
          stored, wrote, calls, phase, json_str, cleaned, recleaned>>

----------------------------------------------------------------------------
(* Texts *)

\* Python's None where a text is expected (response.text, form.get, the
\* extractor's failure signal).
None == <<"<None>">>

\* Characters matched by \s and removed by str.strip().
Whitespace == {" ", "\n"}

\* The backtick character (a TLA+ string cannot hold it).
Tick == "^"

\* The markdown fence marker, three backticks.
Fence == <<Tick, Tick, Tick>>

\* The marker with the language tag.
FenceJson == Fence \o <<"j", "s", "o", "n">>

StartsWith(s, lit) ==
    /\ Len(s) >= Len(lit)
    /\ SubSeq(s, 1, Len(lit)) = lit

RECURSIVE LStrip(_)
LStrip(s) ==
    IF s # <<>> /\ Head(s) \in Whitespace THEN LStrip(Tail(s)) ELSE s

RECURSIVE RStrip(_)
RStrip(s) ==
    IF s # <<>> /\ s[Len(s)] \in Whitespace
    THEN RStrip(SubSeq(s, 1, Len(s) - 1))
    ELSE s

\* str.strip()
Strip(s) == RStrip(LStrip(s))

\* re.sub(lit + r'\s*', '', s): every leftmost non-overlapping occurrence of
\* lit, with the whitespace that follows it, is removed.
RECURSIVE ReSub(_, _)
ReSub(lit, s) ==
    IF s = <<>> THEN <<>>
    ELSE IF StartsWith(s, lit)
         THEN ReSub(lit, LStrip(SubSeq(s, Len(lit) + 1, Len(s))))
         ELSE <<Head(s)>> \o ReSub(lit, Tail(s))

\* 'not x' for a text or None.
Falsy(x) == x = None \/ x = <<>>

\* A sanitizer that drops every whitespace character instead of trimming.
RECURSIVE DropWhitespace(_)
DropWhitespace(s) ==
    IF s = <<>> THEN <<>>
    ELSE IF Head(s) \in Whitespace THEN DropWhitespace(Tail(s))
         ELSE <<Head(s)>> \o DropWhitespace(Tail(s))

clean_json_string_nostrip(s) ==
    IF Falsy(s) THEN <<"{", "}">>
    ELSE DropWhitespace(ReSub(Fence, ReSub(FenceJson, s)))

clean_json_string(s) ==
    IF Falsy(s) THEN <<"{", "}">>
    ELSE Strip(ReSub(Fence, ReSub(FenceJson, s)))

\* s contains the fence marker somewhere.
HasFence(s) ==
    \E i \in 1..Len(s) : StartsWith(SubSeq(s, i, Len(s)), Fence)

----------------------------------------------------------------------------
(* JSON values and json.loads *)

Num(n) == [kind |-> "number", val |-> n]
Str(s) == [kind |-> "string", val |-> s]
List(items) == [kind |-> "list", val |-> items]
Obj(members) == [kind |-> "object", val |-> members]

NoMembers == [k \in {} |-> Num(0)]

\* The five keys of the structure the prompt asks for.
ResultKeys == {"match_percentage", "matching_skills", "missing_skills",
               "formatting_issues", "summary_feedback"}

\* One character stands for the text of a whole member list:
\*   G  the five requested members, match_percentage 80
\*   H  the five requested members, match_percentage 150
\*   F  the single member "foo": 1
MemberChars == {"G", "H", "F"}

Members(c) ==
    IF c = "F" THEN [foo |-> Num(1)]
    ELSE [match_percentage  |-> Num(IF c = "G" THEN 80 ELSE 150),
          matching_skills   |-> List(<<Str("python")>>),
          missing_skills    |-> List(<<Str("sql")>>),
          formatting_issues |-> List(<<>>),
          summary_feedback  |-> Str("ok")]

ParseFail == [ok |-> FALSE, rest |-> <<>>, val |-> Num(0)]
Parsed(v, rest) == [ok |-> TRUE, rest |-> rest, val |-> v]

\* The digits at the head of s, as a number.
RECURSIVE Digits(_, _)
Digits(s, acc) ==
    IF s # <<>> /\ Head(s) = "7"
    THEN Digits(Tail(s), 10 * acc + 7)
    ELSE Parsed(Num(acc), s)

\* One JSON value at the head of s.  The alphabet has no comma, colon or
\* quote, so an object holds at most one member character and a list at
\* most one element.
RECURSIVE ParseValue(_)
ParseValue(s) ==
    LET t == LStrip(s) IN
    IF t = <<>> THEN ParseFail
    ELSE IF Head(t) = "7" THEN Digits(t, 0)
    ELSE IF Head(t) = "{" THEN
        LET u == LStrip(Tail(t)) IN
        IF u = <<>> THEN ParseFail
        ELSE IF Head(u) = "}" THEN Parsed(Obj(NoMembers), Tail(u))
        ELSE IF Head(u) \in MemberChars THEN
            LET w == LStrip(Tail(u)) IN
            IF w # <<>> /\ Head(w) = "}"
            THEN Parsed(Obj(Members(Head(u))), Tail(w))
            ELSE ParseFail
        ELSE ParseFail
    ELSE IF Head(t) = "[" THEN
        LET u == LStrip(Tail(t)) IN
        IF u = <<>> THEN ParseFail
        ELSE IF Head(u) = "]" THEN Parsed(List(<<>>), Tail(u))
        ELSE LET r == ParseValue(u)
                 w == LStrip(r.rest)
             IN  IF r.ok /\ w # <<>> /\ Head(w) = "]"
                 THEN Parsed(List(<<r.val>>), Tail(w))
                 ELSE ParseFail
    ELSE ParseFail

\* json.loads(s): one value, then only whitespace; anything else raises
\* JSONDecodeError (ok = FALSE).
json_loads(s) ==
    LET r == ParseValue(s) IN
    IF r.ok /\ LStrip(r.rest) = <<>> THEN r ELSE ParseFail

----------------------------------------------------------------------------
(* ats_match *)

\* The dictionary of the except branch.
Fallback(cause) ==
    Obj([match_percentage  |-> Num(0),
         matching_skills   |-> List(<<>>),
         missing_skills    |-> List(<<Str("Error: " \o cause)>>),
         formatting_issues |-> List(<<Str("AI Analysis Failed")>>),
         summary_feedback  |->
            Str("The system encountered an error while processing the document.")])

\* str(e) of the JSONDecodeError json.loads raises.
DecodeError == "JSONDecodeError"

\* What generate_content can do: raise, or return a response whose .text
\* is a text or None.
Raises(cause) == [raised |-> TRUE, cause |-> cause, text |-> None]
Returns(text) == [raised |-> FALSE, cause |-> "", text |-> text]

\* An outcome of a call: a returned value, or an exception leaving it.
Returned(v) == [raised |-> FALSE, cause |-> "", val |-> v]
Raised(cause) == [raised |-> TRUE, cause |-> cause, val |-> Num(0)]

\* ats_match with the try block covering only the parse.
ats_match_narrow_try(o) ==
    IF o.raised THEN Raised(o.cause)
    ELSE LET p == json_loads(clean_json_string(o.text))
         IN  IF p.ok THEN Returned(p.val) ELSE Returned(Fallback(DecodeError))

\* ats_match, from the remote outcome o on.
ats_match(o) ==
    IF o.raised THEN Returned(Fallback(o.cause))
    ELSE LET p == json_loads(clean_json_string(o.text))
         IN  IF p.ok THEN Returned(p.val) ELSE Returned(Fallback(DecodeError))

\* v has the shape the prompt asks for.
IsAnalysisResult(v) ==
    /\ v.kind = "object"
    /\ DOMAIN v.val = ResultKeys
    /\ v.val["match_percentage"].kind = "number"
    /\ v.val["match_percentage"].val \in 0..100

----------------------------------------------------------------------------
(* POST /analyze *)

ReqIds == {"r1", "r2"}
Filenames == {"a.pdf", "b.pdf"}

\* File contents: two PDFs with text, a scanned PDF without text, bytes
\* that are no PDF; a file just opened with "wb"; bytes of two uploads
\* written over each other.
Uploads == {"pdfA", "pdfB", "scan", "junk"}
Truncated == "<truncated>"
Mixed == "<mixed>"
NoFile == "<absent>"

JobText == <<"J", "D">>

Forms ==
    [has_resume : {FALSE}, job_description : {None, <<>>, JobText},
     filename : {""}, content : {NoFile}]
    \cup
    [has_resume : {TRUE}, job_description : {None, <<>>, JobText},
     filename : {""} \cup Filenames, content : Uploads]

NoForm == [has_resume |-> FALSE, job_description |-> None,
           filename |-> "", content |-> NoFile]
NoResp == [status |-> 0, body |-> Num(0)]
NoRemote == [raised |-> FALSE, cause |-> "<not called>", text |-> None]

\* jsonify({"error": msg}), status
Error(status, msg) == [status |-> status, body |-> Obj([error |-> Str(msg)])]

ExtractMessage ==
    "Could not extract text from PDF. It might be empty or scanned images."

\* Validation with the filename check left out.
Validation_no_filename_check(f) ==
    IF ~f.has_resume THEN Error(400, "Resume PDF is required")
    ELSE IF Falsy(f.job_description)
         THEN Error(400, "Job description is required")
    ELSE NoResp

\* Validation with the filename checked before the job description.
Validation_filename_first(f) ==
    IF ~f.has_resume THEN Error(400, "Resume PDF is required")
    ELSE IF f.filename = "" THEN Error(400, "No selected file")
    ELSE IF Falsy(f.job_description)
         THEN Error(400, "Job description is required")
    ELSE NoResp

\* Step 1 of analyze(): the response of the first failing check, NoResp
\* when all three pass.
Validation(f) ==
    IF ~f.has_resume THEN Error(400, "Resume PDF is required")
    ELSE IF Falsy(f.job_description)
         THEN Error(400, "Job description is required")
    ELSE IF f.filename = "" THEN Error(400, "No selected file")
    ELSE NoResp

\* What extract_text_from_pdf can return for a file with content c: the
\* text of its pages, or None when opening or parsing raises.  Bytes of two
\* uploads written over each other parse to anything or not at all.
PageTexts == {<<"A">>, <<"B">>, <<>>}
extract_text_from_pdf(c) ==
    IF c = "pdfA" THEN {<<"A">>}
    ELSE IF c = "pdfB" THEN {<<"B">>}
    ELSE IF c = "scan" THEN {<<>>}
    ELSE IF c = Mixed THEN PageTexts \cup {None}
    ELSE {None}

\* 'if resume_text is None' in place of 'if not resume_text'.
ExtractionFailed_none_only(t) == t = None

\* 'if not resume_text'
ExtractionFailed(t) == Falsy(t)

\* Texts the remote model may answer with.
ModelTexts ==
    { <<>>,
      <<"{", "G", "}">>,
      FenceJson \o <<"\n", "{", "G", "}", "\n">> \o Fence,
      <<"{", "H", "}">>,
      <<"{", "F", "}">>,
      <<"{", "}">>,
      <<"[", "]">>,
      <<"7">>,
      <<"x">>,
      <<"{", "G">> }

RemoteOutcomes ==
    {Raises(c) : c \in {"network unreachable", "quota exceeded"}}
    \cup {Returns(t) : t \in ModelTexts \cup {None}}

\* Result of writing new over a file holding old, from offset 0.
Overlay(old, new) ==
    IF old \in {Truncated, new} THEN {new} ELSE {new, Mixed}

Init ==
    /\ pc = [r \in ReqIds |-> "idle"]
    /\ req = [r \in ReqIds |-> NoForm]
    /\ files = [f \in Filenames |-> NoFile]
    /\ data = [r \in ReqIds |-> NoFile]
    /\ fd = [r \in ReqIds |-> NoFile]
    /\ seen = [r \in ReqIds |-> NoFile]
    /\ resume_text = [r \in ReqIds |-> None]
    /\ remote = [r \in ReqIds |-> NoRemote]
    /\ result = [r \in ReqIds |-> Num(0)]
    /\ resp = [r \in ReqIds |-> NoResp]
    /\ stored = [r \in ReqIds |-> FALSE]
    /\ wrote = [r \in ReqIds |-> 0]
    /\ calls = [r \in ReqIds |-> 0]
    /\ phase = "off"
    /\ json_str = <<>>
    /\ cleaned = <<>>
    /\ recleaned = <<>>

\* The request arrives and is validated (lines 127-138).
Validate(r) ==
    /\ pc[r] = "idle"
    /\ \E f \in Forms :
        /\ req' = [req EXCEPT ![r] = f]
        /\ IF Validation(f) = NoResp
           THEN /\ pc' = [pc EXCEPT ![r] = "validated"]
                /\ UNCHANGED resp
           ELSE /\ pc' = [pc EXCEPT ![r] = "done"]
                /\ resp' = [resp EXCEPT ![r] = Validation(f)]
    /\ UNCHANGED <<files, data, fd, seen, resume_text, remote, result,
                   stored, wrote, calls>>
    /\ UNCHANGED txtVars

\* resume_file.save(pdf_path), first half: open(pdf_path, "wb") creates the
\* file or truncates the one that is there; it raises for a path that
\* cannot be opened, and the handler answers 500 (lines 142-143, 161-163).
SaveOpen(r) ==
    /\ pc[r] = "validated"
    /\ LET name == req[r].filename IN
       \/ /\ name \in Filenames
          /\ LET file == IF files[name] = NoFile THEN r ELSE files[name] IN
             /\ files' = [files EXCEPT ![name] = file]
             /\ data' = [data EXCEPT ![file] = Truncated]
             /\ fd' = [fd EXCEPT ![r] = file]
          /\ wrote' = [wrote EXCEPT ![r] = @ + 1]
          /\ pc' = [pc EXCEPT ![r] = "saving"]
          /\ UNCHANGED resp
       \/ /\ pc' = [pc EXCEPT ![r] = "done"]
          /\ resp' = [resp EXCEPT ![r] = Error(500, "cannot open file")]
          /\ UNCHANGED <<files, data, fd, wrote>>
    /\ UNCHANGED <<req, seen, resume_text, remote, result, stored, calls>>
    /\ UNCHANGED txtVars

\* resume_file.save(pdf_path), second half: the upload's bytes are written
\* to the open file, which another request may have written or unlinked
\* meanwhile; a failing write raises and the handler answers 500.
SaveWrite(r) ==
    /\ pc[r] = "saving"
    /\ \/ /\ \E c \in Overlay(data[fd[r]], req[r].content) :
                data' = [data EXCEPT ![fd[r]] = c]
          /\ stored' = [stored EXCEPT ![r] = TRUE]
          /\ wrote' = [wrote EXCEPT ![r] = @ + 1]
          /\ pc' = [pc EXCEPT ![r] = "stored"]
          /\ UNCHANGED resp
       \/ /\ pc' = [pc EXCEPT ![r] = "done"]
          /\ resp' = [resp EXCEPT ![r] = Error(500, "cannot write file")]
          /\ UNCHANGED <<data, stored, wrote>>
    /\ UNCHANGED <<req, files, fd, seen, resume_text, remote, result, calls>>
    /\ UNCHANGED txtVars

\* resume_text = extract_text_from_pdf(pdf_path) and the check on it
\* (lines 145-148): the file now at the path is read.
Extract(r) ==
    /\ pc[r] = "stored"
    /\ LET file == files[req[r].filename]
           c == IF file = NoFile THEN NoFile ELSE data[file]
       IN  /\ seen' = [seen EXCEPT ![r] = c]
           /\ \E t \in extract_text_from_pdf(c) :
                /\ resume_text' = [resume_text EXCEPT ![r] = t]
                /\ IF ExtractionFailed(t)
                   THEN /\ pc' = [pc EXCEPT ![r] = "done"]
                        /\ resp' = [resp EXCEPT ![r] = Error(400, ExtractMessage)]
                   ELSE /\ pc' = [pc EXCEPT ![r] = "extracted"]
                        /\ UNCHANGED resp
    /\ UNCHANGED <<req, files, data, fd, remote, result, stored, wrote, calls>>
    /\ UNCHANGED txtVars

\* analysis_result = ats_match(resume_text, jd_text) (line 151); an
\* exception leaving ats_match reaches the handler's except (161-163).
Analyze(r) ==
    /\ pc[r] = "extracted"
    /\ \E o \in RemoteOutcomes :
        /\ remote' = [remote EXCEPT ![r] = o]
        /\ calls' = [calls EXCEPT ![r] = @ + 1]
        /\ LET a == ats_match(o) IN
           IF a.raised
           THEN /\ pc' = [pc EXCEPT ![r] = "done"]
                /\ resp' = [resp EXCEPT ![r] = Error(500, a.cause)]
                /\ UNCHANGED result
           ELSE /\ pc' = [pc EXCEPT ![r] = "analyzed"]
                /\ result' = [result EXCEPT ![r] = a.val]
                /\ UNCHANGED resp
    /\ UNCHANGED <<req, files, data, fd, seen, resume_text, stored, wrote>>
    /\ UNCHANGED txtVars

\* os.remove(pdf_path) with its failure ignored, then
\* return jsonify(analysis_result) (lines 153-159).
Cleanup(r) ==
    /\ pc[r] = "analyzed"
    /\ LET name == req[r].filename IN
       IF files[name] # NoFile
       THEN /\ files' = [files EXCEPT ![name] = NoFile]
            /\ wrote' = [wrote EXCEPT ![r] = @ + 1]
       ELSE UNCHANGED <<files, wrote>>
    /\ resp' = [resp EXCEPT ![r] = [status |-> 200, body |-> result[r]]]
    /\ pc' = [pc EXCEPT ![r] = "done"]
    /\ UNCHANGED <<req, data, fd, seen, resume_text, remote, result, stored,
                   calls>>
    /\ UNCHANGED txtVars

Next ==
    \E r \in ReqIds :
        \/ Validate(r)
        \/ SaveOpen(r)
        \/ SaveWrite(r)
        \/ Extract(r)
        \/ Analyze(r)
        \/ Cleanup(r)

Spec == Init /\ [][Next]_vars

----------------------------------------------------------------------------
(* The sanitizer applied to a text, and to its own result. *)

MaxPieces == 5

Pieces == {Fence, <<"j", "s", "o", "n">>, <<Tick>>, <<" ">>, <<"\n">>, <<"x">>}

\* The texts made of at most n pieces.
RECURSIVE TextsOf(_)
TextsOf(n) ==
    IF n = 0 THEN {<<>>}
    ELSE LET shorter == TextsOf(n - 1)
         IN  shorter \cup {p \o t : p \in Pieces, t \in shorter}

InitClean ==
    /\ pc = [r \in ReqIds |-> "idle"]
    /\ req = [r \in ReqIds |-> NoForm]
    /\ files = [f \in Filenames |-> NoFile]
    /\ data = [r \in ReqIds |-> NoFile]
    /\ fd = [r \in ReqIds |-> NoFile]
    /\ seen = [r \in ReqIds |-> NoFile]
    /\ resume_text = [r \in ReqIds |-> None]
    /\ remote = [r \in ReqIds |-> NoRemote]
    /\ result = [r \in ReqIds |-> Num(0)]
    /\ resp = [r \in ReqIds |-> NoResp]
    /\ stored = [r \in ReqIds |-> FALSE]
    /\ wrote = [r \in ReqIds |-> 0]
    /\ calls = [r \in ReqIds |-> 0]
    /\ phase = "input"
    /\ json_str \in TextsOf(MaxPieces)
    /\ cleaned = <<>>
    /\ recleaned = <<>>

Sanitize ==
    /\ phase = "input"
    /\ cleaned' = clean_json_string(json_str)
    /\ phase' = "once"
    /\ UNCHANGED <<json_str, recleaned>>
    /\ UNCHANGED reqVars

SanitizeAgain ==
    /\ phase = "once"
    /\ recleaned' = clean_json_string(cleaned)
    /\ phase' = "twice"
    /\ UNCHANGED <<json_str, cleaned>>
    /\ UNCHANGED reqVars

NextClean == Sanitize \/ SanitizeAgain

SpecClean == InitClean /\ [][NextClean]_vars

----------------------------------------------------------------------------
(* Properties *)

Done(r) == pc[r] = "done"

\* The request has run extract_text_from_pdf on a file it stored.
HasExtracted(r) == stored[r] /\ pc[r] \in {"extracted", "analyzed", "done"}

\* The request has an analysis result.
HasAnalysed(r) == calls[r] > 0 /\ pc[r] \in {"analyzed", "done"}

\* The form passes the three checks of the specification.
Valid(f) ==
    /\ f.has_resume
    /\ f.job_description # None
    /\ f.job_description # <<>>
    /\ f.filename # ""

IsErrorBody(b) == b.kind = "object" /\ DOMAIN b.val = {"error"}

\* C1: once a request that stored its upload has been answered, the file it
\* stored is no longer in the upload directory, whatever the answer was.
C1_StoredFileGoneAfterResponse ==
    \A r \in ReqIds :
        (Done(r) /\ stored[r]) => files[req[r].filename] # fd[r]

\* C2: every 200 body is an object with exactly the five result keys and an
\* integer match_percentage in 0..100, whatever text the model returned.
C2_ResultShape ==
    \A r \in ReqIds :
        resp[r].status = 200 => IsAnalysisResult(resp[r].body)

\* The cause the fallback of a failed analysis carries.
FailureCause(o) == IF o.raised THEN o.cause ELSE DecodeError

\* The remote call raised, or its text does not parse as JSON once cleaned.
AnalysisFailed(o) ==
    \/ o.raised
    \/ ~json_loads(clean_json_string(o.text)).ok

\* C3: when the remote call raises or its text does not parse, the request
\* goes on to an HTTP 200 answer whose body is the fallback result carrying
\* the cause; it is never answered 400 or 500.
C3_RemoteFailureAbsorbed ==
    \A r \in ReqIds :
        (calls[r] > 0 /\ AnalysisFailed(remote[r])) =>
            /\ pc[r] \in {"analyzed", "done"}
            /\ result[r] = Fallback(FailureCause(remote[r]))
            /\ Done(r) =>
                 resp[r] = [status |-> 200,
                            body |-> Fallback(FailureCause(remote[r]))]

C3_Witness ==
    \E r, q \in ReqIds :
        /\ Done(r) /\ remote[r] = Raises("network unreachable")
        /\ resp[r].status = 200
        /\ Done(q) /\ calls[q] = 1 /\ remote[q] = Returns(<<"{", "G">>)
        /\ resp[q].status = 200

\* v is the fallback result, with some error entry in missing_skills.
IsFallback(v) ==
    /\ v.kind = "object"
    /\ DOMAIN v.val = ResultKeys
    /\ v.val["match_percentage"] = Num(0)
    /\ v.val["matching_skills"] = List(<<>>)
    /\ v.val["missing_skills"].kind = "list"
    /\ Len(v.val["missing_skills"].val) = 1
    /\ v.val["formatting_issues"] = List(<<Str("AI Analysis Failed")>>)
    /\ v.val["summary_feedback"] =
         Str("The system encountered an error while processing the document.")

\* C4: when the remote call returns an empty or absent text, the analysis
\* result is the fallback result.
C4_EmptyOutputYieldsFallback ==
    \A r \in ReqIds :
        (HasAnalysed(r) /\ ~remote[r].raised /\ remote[r].text \in {None, <<>>})
            => IsFallback(result[r])

JobDescriptionRequired == Error(400, "Job description is required")

\* C5 as stated: every request with an empty or missing job_description is
\* answered 400 "Job description is required", whatever its other fields.
C5_EmptyJobDescriptionAlways400 ==
    \A r \in ReqIds :
        (pc[r] # "idle" /\ req[r].job_description \in {None, <<>>}) =>
            Done(r) /\ resp[r] = JobDescriptionRequired

\* C5 amended: every request that has the resume field and an empty or
\* missing job_description is answered 400 "Job description is required",
\* whatever its filename.
C5_EmptyJobDescriptionWithResume400 ==
    \A r \in ReqIds :
        (pc[r] # "idle" /\ req[r].has_resume
            /\ req[r].job_description \in {None, <<>>}) =>
            Done(r) /\ resp[r] = JobDescriptionRequired

C5_Witness ==
    \E r \in ReqIds :
        /\ Done(r) /\ req[r].has_resume /\ req[r].filename = ""
        /\ req[r].job_description = <<>>
        /\ resp[r] = JobDescriptionRequired

\* C6: when the extractor returns its failure signal or an empty text for a
\* stored upload, the request is answered 400 with the extraction error and
\* the remote model is never called for it.
C6_ExtractionFailureAborts ==
    \A r \in ReqIds :
        (HasExtracted(r) /\ resume_text[r] \in {None, <<>>}) =>
            /\ Done(r)
            /\ resp[r] = Error(400, ExtractMessage)
            /\ calls[r] = 0
            /\ remote[r] = NoRemote

C6_Witness ==
    \E r, q \in ReqIds :
        /\ HasExtracted(r) /\ resume_text[r] = None /\ seen[r] = "junk"
        /\ HasExtracted(q) /\ resume_text[q] = <<>> /\ seen[q] = "scan"
        /\ resp[r].status = 400 /\ resp[q].status = 400

\* s neither starts nor ends with whitespace.
Trimmed(s) ==
    s = <<>> \/ (s[1] \notin Whitespace /\ s[Len(s)] \notin Whitespace)

\* C7 as stated: the sanitizer returns every fence-free text unchanged, and
\* applying it twice gives what applying it once gives.
C7_NoOpOnFenceFree ==
    /\ (phase # "input" /\ ~HasFence(json_str)) => cleaned = json_str
    /\ phase = "twice" => recleaned = cleaned

\* C7 amended: the sanitizer returns unchanged every non-empty fence-free
\* text that neither starts nor ends with whitespace, and applying it twice
\* gives what applying it once gives whenever the first result is not empty.
C7_NoOpOnTrimmedFenceFree ==
    /\ (phase # "input" /\ ~HasFence(json_str) /\ json_str # <<>>
            /\ Trimmed(json_str)) => cleaned = json_str
    /\ (phase = "twice" /\ cleaned # <<>>) => recleaned = cleaned

C7_Witness ==
    /\ phase = "twice"
    /\ ~HasFence(json_str)
    /\ Len(json_str) >= 4
    /\ Trimmed(json_str)
    /\ \E i, j \in 1..Len(json_str) :
          json_str[i] \in Whitespace /\ json_str[j] = Tick
    /\ cleaned = json_str
    /\ recleaned = json_str

\* s is a body between a leading fence, with or without the language tag,
\* and a trailing fence.  The body neither starts nor ends with a backtick,
\* so where the two wrapping fences end and begin is not in doubt.
LeadLen(s) == IF StartsWith(s, FenceJson) THEN Len(FenceJson) ELSE Len(Fence)
WrappedBody(s) == SubSeq(s, LeadLen(s) + 1, Len(s) - Len(Fence))
IsWrapped(s) ==
    /\ StartsWith(s, Fence)
    /\ Len(s) >= LeadLen(s) + Len(Fence)
    /\ SubSeq(s, Len(s) - Len(Fence) + 1, Len(s)) = Fence
    /\ WrappedBody(s) # <<>>
    /\ Head(WrappedBody(s)) # Tick
    /\ WrappedBody(s)[Len(WrappedBody(s))] # Tick

\* C8: sanitizing a body wrapped in a leading and a trailing fence returns
\* the body, trimmed, with every character between the two fences kept.
C8_StripsOnlyWrappingFences ==
    (phase # "input" /\ IsWrapped(json_str)) =>
        cleaned = RStrip(LStrip(WrappedBody(json_str)))

\* C9: a request failing a validation check is answered 400 with an error
\* body, has changed nothing in the upload directory and has called the
\* remote model never; only a request passing all three checks writes a
\* file or calls the model.
C9_ValidationPrecedesEffects ==
    \A r \in ReqIds :
        /\ (pc[r] # "idle" /\ ~Valid(req[r])) =>
              /\ Done(r)
              /\ resp[r].status = 400
              /\ IsErrorBody(resp[r].body)
              /\ fd[r] = NoFile /\ ~stored[r]
              /\ wrote[r] = 0
              /\ calls[r] = 0
        /\ (wrote[r] > 0 \/ calls[r] > 0 \/ stored[r] \/ fd[r] # NoFile) =>
              Valid(req[r])

C9_Witness ==
    \E r, q \in ReqIds :
        /\ Done(r) /\ req[r].has_resume /\ req[r].filename = ""
        /\ req[r].job_description = JobText
        /\ resp[r] = Error(400, "No selected file")
        /\ Done(q) /\ Valid(req[q]) /\ wrote[q] = 3 /\ calls[q] = 1

\* C10: under any interleaving of two requests, each request that stored
\* its upload extracts the bytes it uploaded itself and gets the text those
\* bytes give.
C10_RequestsIndependent ==
    \A r \in ReqIds :
        HasExtracted(r) =>
            /\ seen[r] = req[r].content
            /\ resume_text[r] \in extract_text_from_pdf(req[r].content)

====
